---- MODULE Spec2Model ----
(***************************************************************************)
(* Bump allocator `Alloc` of src/src/main.rs over a caller-supplied byte   *)
(* buffer.  Offsets are byte offsets from the first byte of the buffer;    *)
(* `base` is the machine address of that first byte, so the address of     *)
(* offset o is base + o.                                                   *)
(***************************************************************************)
EXTENDS Integers, Sequences, FiniteSets, TLC

\* ---------------------------------------------------------------- bounds
MaxLen == 6      \* longest backing buffer explored
MaxCalls == 3    \* calls made on one Alloc
MaxCount == 2    \* largest `size` argument of alloc_from_fn

\* ----------------------------------------------------------------- types
\* The T of alloc::<T> / alloc_from_fn::<T>: the integer types of the tests
\* (u8, u16, u32) and the zero-sized unit type.
Types == {"u8", "u16", "u32", "unit"}

size_of(T) ==
    CASE T = "u8" -> 1 [] T = "u16" -> 2 [] T = "u32" -> 4 [] T = "unit" -> 0

align_of(T) ==
    CASE T = "u8" -> 1 [] T = "u16" -> 2 [] T = "u32" -> 4 [] T = "unit" -> 1

\* Addresses the buffer may start at: a [u8; N] has alignment 1, so every
\* residue modulo the largest alignment occurs.
BaseAddrs == 0 .. 3

\* Values handed to alloc; a value of T must be representable in T.
ItemPool == {1, 2, 513}

\* v shifted right by n bytes.
RECURSIVE Shr8(_, _)
Shr8(v, n) == IF n = 0 THEN v ELSE Shr8(v \div 256, n - 1)

Items(T) == IF size_of(T) = 0 THEN {0} ELSE {v \in ItemPool : Shr8(v, size_of(T)) = 0}

\* The generator of tests::alloc_fn, |i| (i + 1) as T (the cast keeps the
\* low size_of(T) bytes, which is what ToBytes stores).
Gen(T, i) == IF size_of(T) = 0 THEN 0 ELSE i + 1

\* What an operation does where the source has undefined behaviour: a build
\* with the language's UB checks compiled in aborts the process, a build
\* without them carries on.
UBOutcomes == {"abort", "proceed"}

VARIABLES
    base,       \* address of the first byte of the buffer
    heap,       \* the buffer: [0 .. L-1 -> 0 .. 255]
    mem,        \* Alloc.mem, the remaining view: [start, len]
    returned,   \* regions of the references handed out so far, in call order
    last,       \* the latest call: arguments, result and the state before it
    ncalls,     \* calls made so far
    halted,     \* the process has panicked or aborted
    allocsOk,   \* every call so far was an alloc that returned Ok
    consumed,   \* while allocsOk: sum of (padding + size_of) over the calls
    u8Only,     \* every call so far was alloc::<u8>
    u8Items,    \* while u8Only: the items of the calls that returned Ok
    failed      \* the types T for which an alloc::<T> has returned Err

vars == <<base, heap, mem, returned, last, ncalls, halted,
          allocsOk, consumed, u8Only, u8Items, failed>>

BufLen == Cardinality(DOMAIN heap)

NoRef == [start |-> -1, len |-> 0]

\* ------------------------------------------------------------- helpers
\* core::ptr::write of an integer: its little-endian representation
\* (tests::alloc_i64s expects 1, 0, 0, ...).
ToBytes(v, n) == [i \in 0 .. n - 1 |-> Shr8(v, i) % 256]

\* WriteBytes storing one byte too far (a wrong destination pointer).
WriteBytes_shifted(h, off, bytes) ==
    [i \in DOMAIN h |->
        IF i - off - 1 \in DOMAIN bytes THEN bytes[i - off - 1] ELSE h[i]]

\* The bytes of `bytes` stored at offsets off, off+1, ... of h.
WriteBytes(h, off, bytes) ==
    [i \in DOMAIN h |->
        IF i - off \in DOMAIN bytes THEN bytes[i - off] ELSE h[i]]

\* alloc_mem moving the view's start without shortening the view.
alloc_mem_keeps_len(m, size) ==
    [item |-> [start |-> m.start, len |-> size],
     rest |-> [start |-> m.start + size, len |-> m.len]]

\* Alloc::alloc_mem: split the view at `size`; the callers check
\* size <= m.len first, so split_at_mut does not panic.
alloc_mem(m, size) ==
    [item |-> [start |-> m.start, len |-> size],
     rest |-> [start |-> m.start + size, len |-> m.len - size]]

\* Alloc::calc_waste_bytes
calc_waste_bytes(m, T) == (base + m.start) % align_of(T)

\* waste_mem reporting the padding without skipping it.
waste_mem_no_skip(m, T) ==
    LET waste_bytes == calc_waste_bytes(m, T) IN
    IF m.len < waste_bytes
    THEN [ok |-> FALSE, mem |-> m, waste |-> waste_bytes]
    ELSE [ok |-> TRUE, mem |-> m, waste |-> waste_bytes]

\* waste_mem eating what is left of the view when the padding does not fit.
waste_mem_drains(m, T) ==
    LET waste_bytes == calc_waste_bytes(m, T) IN
    IF m.len < waste_bytes
    THEN [ok |-> FALSE, mem |-> alloc_mem(m, m.len).rest, waste |-> waste_bytes]
    ELSE [ok |-> TRUE, mem |-> alloc_mem(m, waste_bytes).rest,
          waste |-> waste_bytes]

\* Alloc::waste_mem
waste_mem(m, T) ==
    LET waste_bytes == calc_waste_bytes(m, T) IN
    IF m.len < waste_bytes
    THEN [ok |-> FALSE, mem |-> m, waste |-> waste_bytes]
    ELSE [ok |-> TRUE, mem |-> alloc_mem(m, waste_bytes).rest,
          waste |-> waste_bytes]

\* Is the view's start address a multiple of T's alignment (the
\* precondition noted above alloc_aligned)?
IsAligned(m, T) == (base + m.start) % align_of(T) = 0

\* alloc_aligned with its size check off by one.
alloc_aligned_off_by_one(m, h, T, item, ub) ==
    LET required_size == size_of(T) IN
    IF m.len + 1 < required_size
    THEN [res |-> "Err", mem |-> m, heap |-> h, ref |-> NoRef]
    ELSE LET s == alloc_mem(m, required_size) IN
         IF ~IsAligned(m, T) /\ ub = "abort"
         THEN [res |-> "Abort", mem |-> s.rest, heap |-> h, ref |-> NoRef]
         ELSE [res |-> "Ok", mem |-> s.rest,
               heap |-> WriteBytes(h, s.item.start, ToBytes(item, required_size)),
               ref |-> s.item]

\* alloc_aligned storing the item in the wrong half of the split.
alloc_aligned_writes_rest(m, h, T, item, ub) ==
    LET required_size == size_of(T) IN
    IF m.len < required_size
    THEN [res |-> "Err", mem |-> m, heap |-> h, ref |-> NoRef]
    ELSE LET s == alloc_mem(m, required_size) IN
         IF ~IsAligned(m, T) /\ ub = "abort"
         THEN [res |-> "Abort", mem |-> s.rest, heap |-> h, ref |-> NoRef]
         ELSE [res |-> "Ok", mem |-> s.rest,
               heap |-> WriteBytes(h, s.rest.start, ToBytes(item, required_size)),
               ref |-> s.item]

\* alloc_aligned refusing a request that fills the view exactly.
alloc_aligned_needs_spare(m, h, T, item, ub) ==
    LET required_size == size_of(T) IN
    IF m.len <= required_size
    THEN [res |-> "Err", mem |-> m, heap |-> h, ref |-> NoRef]
    ELSE LET s == alloc_mem(m, required_size) IN
         IF ~IsAligned(m, T) /\ ub = "abort"
         THEN [res |-> "Abort", mem |-> s.rest, heap |-> h, ref |-> NoRef]
         ELSE [res |-> "Ok", mem |-> s.rest,
               heap |-> WriteBytes(h, s.item.start, ToBytes(item, required_size)),
               ref |-> s.item]

\* Alloc::alloc_aligned.  Writing through a misaligned pointer is undefined
\* behaviour: under "abort" the write's precondition check stops the process
\* before the store, under "proceed" the store happens.
alloc_aligned(m, h, T, item, ub) ==
    LET required_size == size_of(T) IN
    IF m.len < required_size
    THEN [res |-> "Err", mem |-> m, heap |-> h, ref |-> NoRef]
    ELSE LET s == alloc_mem(m, required_size) IN
         IF ~IsAligned(m, T) /\ ub = "abort"
         THEN [res |-> "Abort", mem |-> s.rest, heap |-> h, ref |-> NoRef]
         ELSE [res |-> "Ok", mem |-> s.rest,
               heap |-> WriteBytes(h, s.item.start, ToBytes(item, required_size)),
               ref |-> s.item]

\* alloc giving the padding back when the size check fails.
alloc_rolls_back(m, h, T, item, ub) ==
    LET w == waste_mem(m, T) IN
    IF ~w.ok
    THEN [res |-> "Err", mem |-> w.mem, heap |-> h, ref |-> NoRef,
          waste |-> w.waste]
    ELSE LET r == alloc_aligned(w.mem, h, T, item, ub) IN
         [res |-> r.res, mem |-> IF r.res = "Err" THEN m ELSE r.mem,
          heap |-> r.heap, ref |-> r.ref, waste |-> w.waste]

\* alloc checking padding + size up front and consuming nothing on failure.
alloc_checks_up_front(m, h, T, item, ub) ==
    LET w == waste_mem(m, T) IN
    IF ~w.ok \/ w.mem.len < size_of(T)
    THEN [res |-> "Err", mem |-> m, heap |-> h, ref |-> NoRef,
          waste |-> w.waste]
    ELSE LET r == alloc_aligned(w.mem, h, T, item, ub) IN
         [res |-> r.res, mem |-> r.mem, heap |-> r.heap, ref |-> r.ref,
          waste |-> w.waste]

\* Alloc::alloc
alloc(m, h, T, item, ub) ==
    LET w == waste_mem(m, T) IN
    IF ~w.ok
    THEN [res |-> "Err", mem |-> w.mem, heap |-> h, ref |-> NoRef,
          waste |-> w.waste]
    ELSE LET r == alloc_aligned(w.mem, h, T, item, ub) IN
         [res |-> r.res, mem |-> r.mem, heap |-> r.heap, ref |-> r.ref,
          waste |-> w.waste]

\* The loop stopping one element early.
RECURSIVE from_fn_loop_short(_, _, _, _, _, _)
from_fn_loop_short(m, h, T, i, size, ub) ==
    IF i + 1 >= size
    THEN [res |-> "Ok", mem |-> m, heap |-> h]
    ELSE LET r == alloc_aligned(m, h, T, Gen(T, i), ub) IN
         IF r.res = "Abort" \/ (r.res = "Err" /\ ub = "abort")
         THEN [res |-> "Abort", mem |-> r.mem, heap |-> r.heap]
         ELSE from_fn_loop_short(r.mem, r.heap, T, i + 1, size, ub)

\* The loop of Alloc::alloc_from_fn from index i on.  unwrap_unchecked on
\* an Err is undefined behaviour: under "abort" its precondition check stops
\* the process, under "proceed" the Err is discarded and the loop goes on.
RECURSIVE from_fn_loop(_, _, _, _, _, _)
from_fn_loop(m, h, T, i, size, ub) ==
    IF i >= size
    THEN [res |-> "Ok", mem |-> m, heap |-> h]
    ELSE LET r == alloc_aligned(m, h, T, Gen(T, i), ub) IN
         IF r.res = "Abort" \/ (r.res = "Err" /\ ub = "abort")
         THEN [res |-> "Abort", mem |-> r.mem, heap |-> r.heap]
         ELSE from_fn_loop(r.mem, r.heap, T, i + 1, size, ub)

\* Alloc::alloc_from_fn.  arr_ptr keeps the view's byte length as its
\* element count, so the final [0..size] panics when size exceeds it.
\* Forming &mut *arr_ptr from a misaligned arr_ptr is undefined behaviour
\* ("abort": the dereference check stops the process).
alloc_from_fn(m, h, T, size, ub) ==
    LET w == waste_mem(m, T) IN
    IF ~w.ok
    THEN [res |-> "Err", mem |-> w.mem, heap |-> h, ref |-> NoRef,
          waste |-> w.waste]
    ELSE LET arr == w.mem
             l == from_fn_loop(w.mem, h, T, 0, size, ub)
         IN  [res |-> IF l.res = "Abort" THEN "Abort"
                      ELSE IF ~IsAligned(arr, T) /\ ub = "abort" THEN "Abort"
                      ELSE IF size > arr.len THEN "Panic"
                      ELSE "Ok",
              mem |-> l.mem, heap |-> l.heap,
              ref |-> IF l.res = "Abort"
                         \/ (~IsAligned(arr, T) /\ ub = "abort")
                         \/ size > arr.len
                      THEN NoRef
                      ELSE [start |-> arr.start, len |-> size * size_of(T)],
              waste |-> w.waste]

\* -------------------------------------------------------------- actions
\* Alloc::new over a zero-filled buffer of any length up to MaxLen, placed
\* at any address.
Init ==
    /\ base \in BaseAddrs
    /\ \E L \in 0 .. MaxLen :
          /\ heap = [i \in 0 .. L - 1 |-> 0]
          /\ mem = [start |-> 0, len |-> L]
    /\ returned = <<>>
    /\ last = [op |-> "new", T |-> "u8", arg |-> 0, res |-> "Ok", waste |-> 0,
               ref |-> NoRef, preMem |-> [start |-> 0, len |-> 0],
               preHeap |-> <<>>, preFailed |-> {}]
    /\ ncalls = 0
    /\ halted = FALSE
    /\ allocsOk = TRUE
    /\ consumed = 0
    /\ u8Only = TRUE
    /\ u8Items = <<>>
    /\ failed = {}

\* The part of a step common to both calls: r is the call's outcome.
Record(op, T, arg, r) ==
    /\ mem' = r.mem
    /\ heap' = r.heap
    /\ returned' = IF r.res = "Ok" THEN Append(returned, r.ref) ELSE returned
    /\ last' = [op |-> op, T |-> T, arg |-> arg, res |-> r.res,
                waste |-> r.waste, ref |-> r.ref, preMem |-> mem,
                preHeap |-> heap, preFailed |-> failed]
    /\ ncalls' = ncalls + 1
    /\ halted' = (r.res \in {"Abort", "Panic"})
    /\ allocsOk' = (allocsOk /\ op = "alloc" /\ r.res = "Ok")
    /\ consumed' = IF allocsOk' THEN consumed + r.waste + size_of(T) ELSE 0
    /\ u8Only' = (u8Only /\ op = "alloc" /\ T = "u8")
    /\ u8Items' = IF ~u8Only' THEN <<>>
                  ELSE IF r.res = "Ok" THEN Append(u8Items, arg) ELSE u8Items
    /\ failed' = IF op = "alloc" /\ r.res = "Err" THEN failed \cup {T}
                 ELSE failed
    /\ UNCHANGED base

Alloc ==
    /\ ~halted
    /\ ncalls < MaxCalls
    /\ \E T \in Types : \E item \in Items(T) : \E ub \in UBOutcomes :
          Record("alloc", T, item, alloc(mem, heap, T, item, ub))

AllocFromFn ==
    /\ ~halted
    /\ ncalls < MaxCalls
    /\ \E T \in Types : \E size \in 0 .. MaxCount : \E ub \in UBOutcomes :
          Record("alloc_from_fn", T, size, alloc_from_fn(mem, heap, T, size, ub))

Next == Alloc \/ AllocFromFn

Spec == Init /\ [][Next]_vars

\* ------------------------------------------------------- claim vocabulary
IsCall == last.op \in {"alloc", "alloc_from_fn"}

\* Bytes the latest call asked for after its padding.
Wanted == IF last.op = "alloc" THEN size_of(last.T)
          ELSE last.arg * size_of(last.T)

\* The latest call could skip its padding / could not even do that.
PaddingFits == last.preMem.len >= last.waste

\* The latest call's whole request fits in the view it found.
RequestFits == last.preMem.len >= last.waste + Wanted

\* Two regions share no byte.
Disjoint(r1, r2) == r1.len = 0 \/ r2.len = 0
                    \/ r1.start + r1.len <= r2.start
                    \/ r2.start + r2.len <= r1.start

\* --------------------------------------------------------------- claims

\* C1: whenever alloc::<T> succeeds for a T with alignment A > 1, the address
\* of the returned region is a multiple of A.
C1_AllocIsAligned ==
    (last.op = "alloc" /\ last.res = "Ok" /\ align_of(last.T) > 1)
        => (base + last.ref.start) % align_of(last.T) = 0

\* C2: the regions returned by any two distinct successful calls are
\* disjoint.
C2_RegionsDisjoint ==
    \A i, j \in DOMAIN returned :
        i < j => Disjoint(returned[i], returned[j])

\* C3: when, after the padding for T has been skipped, the view is shorter
\* than size_of(T), alloc::<T> returns Err(OutOfMemory) and every byte of the
\* buffer is as it was before the call.
C3_OomKeepsBytes ==
    (last.op = "alloc" /\ PaddingFits
        /\ last.preMem.len - last.waste < size_of(last.T))
        => (last.res = "Err" /\ heap = last.preHeap)

C3_Witness ==
    /\ last.op = "alloc" /\ PaddingFits
    /\ last.preMem.len - last.waste < size_of(last.T)
    /\ last.res = "Err"
    /\ Len(returned) > 0
    /\ \E o \in DOMAIN heap : heap[o] # 0

\* C4: a call whose request does not fit writes no byte of the buffer and
\* returns no reference that runs past the end of the buffer or overlaps a
\* region returned before.
C4_FailedCallWritesNothing ==
    (IsCall /\ ~RequestFits)
        => /\ heap = last.preHeap
           /\ last.res = "Ok" =>
                 /\ last.ref.start + last.ref.len <= BufLen
                 /\ \A i \in 1 .. Len(returned) - 1 :
                        Disjoint(returned[i], last.ref)

\* C5: the view is always a suffix of the buffer, and no call moves its
\* start back or makes it longer.
ViewIsSuffix ==
    /\ mem.start >= 0
    /\ mem.len >= 0
    /\ mem.start + mem.len = BufLen

ViewShrinks ==
    /\ mem'.start >= mem.start
    /\ mem'.len <= mem.len

C5_SuffixMonotone == []ViewIsSuffix /\ [][ViewShrinks]_vars

C5_Witness ==
    /\ IsCall /\ last.res = "Err"
    /\ last.waste > 0
    /\ mem.start > last.preMem.start
    /\ last.preMem.start > 0
    /\ mem.len < BufLen

\* C6: after a sequence of successful alloc calls on a fresh Alloc over a
\* buffer of length L, the view's length is L minus the sum of the calls'
\* (padding + size_of).
C6_ConsumedSum ==
    allocsOk => mem.len = BufLen - consumed

C6_Witness ==
    /\ allocsOk
    /\ ncalls >= 2
    /\ last.waste > 0
    /\ consumed > 0

\* C7: k <= L calls of alloc::<u8> on a fresh Alloc all succeed and leave
\* their items in bytes 0 .. k-1 in call order, the other bytes as they were.
C7_BytesInOrder ==
    (u8Only /\ ncalls <= BufLen)
        => /\ Len(u8Items) = ncalls
           /\ \A i \in 1 .. ncalls : heap[i - 1] = u8Items[i]
           /\ \A o \in ncalls .. BufLen - 1 : heap[o] = 0

C7_Witness ==
    /\ u8Only
    /\ ncalls >= 2
    /\ ncalls < BufLen
    /\ Len(u8Items) >= 2
    /\ u8Items[1] # u8Items[2]

\* C8: alloc_from_fn::<T>(N, f) whose padding + N * size_of(T) fits returns
\* Ok with N elements, element i holding f(i) in the size_of(T) bytes at
\* (start after padding) + i * size_of(T).
C8_FromFnFills ==
    (last.op = "alloc_from_fn" /\ RequestFits)
        => /\ last.res = "Ok"
           /\ last.ref.start = last.preMem.start + last.waste
           /\ last.ref.len = last.arg * size_of(last.T)
           /\ \A i \in 0 .. last.arg - 1 :
                 \A b \in 0 .. size_of(last.T) - 1 :
                    heap[last.ref.start + i * size_of(last.T) + b]
                        = ToBytes(Gen(last.T, i), size_of(last.T))[b]

\* C9: when alloc::<T> fails at the size check, the view has lost exactly
\* the padding: the padding is not given back and nothing more is taken.
C9_FailureKeepsPaddingWaste ==
    (last.op = "alloc" /\ PaddingFits
        /\ last.preMem.len - last.waste < size_of(last.T))
        => /\ mem.start = last.preMem.start + last.waste
           /\ mem.len = last.preMem.len - last.waste

C9_Witness ==
    /\ last.op = "alloc" /\ PaddingFits
    /\ last.preMem.len - last.waste < size_of(last.T)
    /\ last.waste > 0
    /\ last.preMem.len > last.waste

\* C10: when the view is shorter than the padding for T, alloc::<T> and
\* alloc_from_fn::<T> return Err(OutOfMemory) and change neither the view
\* nor any byte of the buffer.
C10_PaddingFailureChangesNothing ==
    (IsCall /\ ~PaddingFits)
        => /\ last.res = "Err"
           /\ mem = last.preMem
           /\ heap = last.preHeap

C10_Witness ==
    /\ last.op = "alloc_from_fn" /\ ~PaddingFits
    /\ last.arg > 0
    /\ last.preMem.len > 0
    /\ Len(returned) > 0

C10_WitnessAlloc ==
    /\ last.op = "alloc" /\ ~PaddingFits
    /\ last.preMem.len > 0

\* C11: alloc::<T> returns Err(OutOfMemory) exactly when the view is shorter
\* than padding + size_of(T); whenever the request fits, the call succeeds.
C11_FailsIffNoRoom ==
    last.op = "alloc"
        => /\ (last.res = "Err") <=> ~RequestFits
           /\ RequestFits => last.res = "Ok"

\* C12: a successful alloc::<T>(v) sets the size_of(T) bytes that follow the
\* skipped padding to the representation of v and leaves every other byte of
\* the buffer as it was.
C12_AllocFrame ==
    (last.op = "alloc" /\ last.res = "Ok")
        => /\ last.ref.start = last.preMem.start + last.waste
           /\ last.ref.len = size_of(last.T)
           /\ \A o \in DOMAIN heap :
                 IF o - last.ref.start \in 0 .. last.ref.len - 1
                 THEN heap[o] = ToBytes(last.arg, size_of(last.T))[o - last.ref.start]
                 ELSE heap[o] = last.preHeap[o]

C12_Witness ==
    /\ last.op = "alloc" /\ last.res = "Ok"
    /\ last.waste > 0
    /\ last.arg = 513
    /\ mem.len > 0
    /\ \E o \in 0 .. last.preMem.start - 1 : last.preHeap[o] # 0

\* C13: alloc_from_fn::<T>(N, f) skips padding once and none between the
\* elements: when the N elements fit, the call leaves the view shorter by
\* exactly padding + N * size_of(T).  (An aborted process has no view left
\* to measure.)
C13_FromFnConsumes ==
    (last.op = "alloc_from_fn" /\ RequestFits /\ last.res # "Abort")
        => /\ mem.len = last.preMem.len - (last.waste + last.arg * size_of(last.T))
           /\ mem.start = last.preMem.start + last.waste + last.arg * size_of(last.T)

C13_Witness ==
    /\ last.op = "alloc_from_fn" /\ RequestFits /\ last.res = "Ok"
    /\ last.waste > 0
    /\ last.arg >= 2
    /\ size_of(last.T) >= 2

C13_WitnessEmpty ==
    /\ last.op = "alloc_from_fn" /\ last.res = "Ok"
    /\ last.arg = 0
    /\ last.waste > 0

\* C14: every region returned by a successful call lies inside the buffer
\* and wholly before the start of the current view.
C14_ReturnedBeforeCursor ==
    \A i \in DOMAIN returned :
        /\ returned[i].start >= 0
        /\ returned[i].start + returned[i].len <= BufLen
        /\ returned[i].start + returned[i].len <= mem.start

\* C15: alloc::<T> for a zero-sized T of alignment 1 succeeds in every
\* state, also with an empty view, and changes neither the view nor any byte.
C15_ZeroSizedAlloc ==
    (last.op = "alloc" /\ size_of(last.T) = 0 /\ align_of(last.T) = 1)
        => /\ last.res = "Ok"
           /\ mem = last.preMem
           /\ heap = last.preHeap

C15_Witness ==
    /\ last.op = "alloc" /\ size_of(last.T) = 0
    /\ last.preMem.len = 0
    /\ BufLen > 0
    /\ Len(returned) >= 2

====
